---- MODULE Spec2Model ----
(***************************************************************************)
(* agriculture_tokenization: the lot registry (initialize_lot) and the     *)
(* revenue distribution (distribute_revenue) of src/lib.rs, with the token *)
(* ledger the program transfers on.  Each instruction is one atomic step;  *)
(* what it was given, returned, transferred and emitted is kept in `last`  *)
(* until the caller has taken the result (Return).                         *)
(***************************************************************************)
EXTENDS Integers, Sequences, FiniteSets, TLC

\* ------------------------------------------------------------------ bounds

\* u64 is modelled as an unsigned word of WordBits bits: every u64 value and
\* every product of two of them stays inside TLC's integers.
WordBits == 5
\* remaining_accounts holds at most MaxHolders entries.
MaxHolders == 3
\* Clock::get()?.unix_timestamp ranges over 0..MaxClock.
MaxClock == 1

U64_MOD == 2 ^ WordBits
U64_MAX == U64_MOD - 1

\* ------------------------------------------------------------ the accounts

\* Signers (farmer / owner).
Keys == {"f1", "f2"}
\* Mint accounts.
Mints == {"m1", "m2"}
\* SPL token accounts, all of mint m1, and one account that is no token account.
TokenAccounts == {"F", "A", "B"}
OtherAccounts == {"N"}
\* The authority (SPL owner) of each token account.
TokenAuthority == [a \in TokenAccounts |->
                     IF a = "F" THEN "f1" ELSE IF a = "A" THEN "a" ELSE "b"]

\* seeds = [b"lot", farmer.key().as_ref()]: the address of a farmer's lot.
LotAddress(farmer) == <<"lot", farmer>>

\* LotAccount::MAX_SIZE and the space the init constraint allocates.
MAX_SIZE == 8 + 32 + 40 + 8 + 8 + 32
Space == 8 + MAX_SIZE

\* The bytes a LotAccount takes when written back: the 8-byte discriminator,
\* owner, the length-prefixed lot_name, yield_estimate, harvest_time,
\* token_mint.  A lot_name is modelled by its length in bytes.
SerializedSize(lot_name) == 8 + 32 + (4 + lot_name) + 8 + 8 + 32

\* ------------------------------------------------------------------- state

VARIABLES
    lots,             \* the LotAccount records that exist, each with its address
    clock,            \* the Clock sysvar's unix_timestamp
    amount,           \* TokenAccount.amount of every token account
    supply,           \* Mint.supply of every mint
    last              \* the last instruction: arguments, result, effects

vars == <<lots, clock, amount, supply, last>>

LotAccount == [key : {LotAddress(f) : f \in Keys}, owner : Keys, lot_name : Nat,
               yield_estimate : Nat, harvest_time : Int, token_mint : Mints]

NoCall == [op |-> "none", signer |-> "none", lot |-> <<>>, lot_name |-> 0,
           yield_estimate |-> 0, harvest_time |-> 0, token_mint |-> "none",
           from |-> "none", holders |-> <<>>, total_revenue |-> 0,
           total_supply |-> 0, now |-> 0, before |-> <<>>, lots_before |-> {},
           result |-> "none", effects |-> <<>>]

LotAt(key) == CHOOSE l \in lots : l.key = key
Exists(key) == \E l \in lots : l.key = key

Init ==
    /\ lots = {}
    /\ clock = 0
    /\ amount = [a \in TokenAccounts |-> IF a = "F" THEN 4 ELSE IF a = "A" THEN 2 ELSE 0]
    /\ supply = [m \in Mints |-> IF m = "m1" THEN 6 ELSE 0]
    /\ last = NoCall

\* ----------------------------------------------------------- initialize_lot

\* Mutant: the two require! in the other order.
InitializeLotResult_harvest_first(farmer, lot_name, yield_estimate, harvest_time) ==
    IF Exists(LotAddress(farmer)) THEN "AlreadyInUse"
    ELSE IF ~(harvest_time > clock) THEN "InvalidHarvestTime"
    ELSE IF ~(yield_estimate > 0) THEN "InsufficientYield"
    ELSE IF SerializedSize(lot_name) > Space THEN "AccountDidNotSerialize"
    ELSE "Ok"

\* Mutant: harvest_time >= now accepted.
InitializeLotResult_not_strict(farmer, lot_name, yield_estimate, harvest_time) ==
    IF Exists(LotAddress(farmer)) THEN "AlreadyInUse"
    ELSE IF ~(yield_estimate > 0) THEN "InsufficientYield"
    ELSE IF ~(harvest_time >= clock) THEN "InvalidHarvestTime"
    ELSE IF SerializedSize(lot_name) > Space THEN "AccountDidNotSerialize"
    ELSE "Ok"

\* Mutant: init_if_needed in place of init, an existing lot is overwritten.
InitializeLotResult_if_needed(farmer, lot_name, yield_estimate, harvest_time) ==
    IF ~(yield_estimate > 0) THEN "InsufficientYield"
    ELSE IF ~(harvest_time > clock) THEN "InvalidHarvestTime"
    ELSE IF SerializedSize(lot_name) > Space THEN "AccountDidNotSerialize"
    ELSE "Ok"

\* The result of initialize_lot: the init constraint of InitializeLot, the two
\* require! of the handler, then the write-back of the account on exit.
InitializeLotResult(farmer, lot_name, yield_estimate, harvest_time) ==
    IF Exists(LotAddress(farmer)) THEN "AlreadyInUse"
    ELSE IF ~(yield_estimate > 0) THEN "InsufficientYield"
    ELSE IF ~(harvest_time > clock) THEN "InvalidHarvestTime"
    ELSE IF SerializedSize(lot_name) > Space THEN "AccountDidNotSerialize"
    ELSE "Ok"

\* emit!(LotInitialized {..}) runs once both require! have passed.
InitializeLotEffects(farmer, lot_name, yield_estimate, harvest_time) ==
    IF InitializeLotResult(farmer, lot_name, yield_estimate, harvest_time)
          \in {"Ok", "AccountDidNotSerialize"}
    THEN << [kind |-> "LotInitialized", lot_name |-> lot_name, owner |-> farmer,
             yield_estimate |-> yield_estimate, harvest_time |-> harvest_time] >>
    ELSE << >>

\* Mutant: yield_estimate and harvest_time are stored in each other's field.
initialize_lot_swapped(farmer, lot_name, yield_estimate, harvest_time, token_mint) ==
    LET res == InitializeLotResult(farmer, lot_name, yield_estimate, harvest_time)
        lot == [key |-> LotAddress(farmer), owner |-> farmer, lot_name |-> lot_name,
                yield_estimate |-> harvest_time, harvest_time |-> yield_estimate,
                token_mint |-> token_mint]
    IN  /\ last = NoCall
        /\ lots' = IF res = "Ok" THEN lots \cup {lot} ELSE lots
        /\ last' = [NoCall EXCEPT !.op = "initialize_lot", !.signer = farmer,
                       !.lot = LotAddress(farmer), !.lot_name = lot_name,
                       !.yield_estimate = yield_estimate,
                       !.harvest_time = harvest_time, !.token_mint = token_mint,
                       !.now = clock, !.before = amount, !.lots_before = lots, !.result = res,
                       !.effects = InitializeLotEffects(farmer, lot_name,
                                        yield_estimate, harvest_time)]
        /\ UNCHANGED <<clock, amount, supply>>

initialize_lot(farmer, lot_name, yield_estimate, harvest_time, token_mint) ==
    LET res == InitializeLotResult(farmer, lot_name, yield_estimate, harvest_time)
        lot == [key |-> LotAddress(farmer), owner |-> farmer, lot_name |-> lot_name,
                yield_estimate |-> yield_estimate, harvest_time |-> harvest_time,
                token_mint |-> token_mint]
    IN  /\ last = NoCall
        /\ lots' = IF res = "Ok" THEN lots \cup {lot} ELSE lots
        /\ last' = [NoCall EXCEPT !.op = "initialize_lot", !.signer = farmer,
                       !.lot = LotAddress(farmer), !.lot_name = lot_name,
                       !.yield_estimate = yield_estimate,
                       !.harvest_time = harvest_time, !.token_mint = token_mint,
                       !.now = clock, !.before = amount, !.lots_before = lots, !.result = res,
                       !.effects = InitializeLotEffects(farmer, lot_name,
                                        yield_estimate, harvest_time)]
        /\ UNCHANGED <<clock, amount, supply>>

\* ------------------------------------------------------- fetch_weather_data

fetch_weather_data(farmer) ==
    /\ last = NoCall
    /\ last' = [NoCall EXCEPT !.op = "fetch_weather_data", !.signer = farmer,
                   !.now = clock, !.before = amount, !.lots_before = lots, !.result = "Ok"]
    /\ UNCHANGED <<lots, clock, amount, supply>>

\* ------------------------------------------------------- distribute_revenue

\* holder_amount * total_revenue / total_supply on u64.  The product is formed
\* first: when it does not fit the word, a build with overflow checks panics
\* and a build without them keeps the low bits.  The division then panics on
\* a zero total_supply.
calculate_share(holder_amount, total_supply, total_revenue, overflow_checks) ==
    LET exact == holder_amount * total_revenue
        product == exact % U64_MOD
    IN  IF exact > U64_MAX /\ overflow_checks
          THEN [err |-> "PanicOverflow", value |-> 0]
        ELSE IF total_supply = 0
          THEN [err |-> "PanicDivideByZero", value |-> 0]
        ELSE [err |-> "none", value |-> product \div total_supply]

\* token::transfer(cpi_ctx, n) from `from` to `to` signed by `authority`: the
\* ledger refuses it whole or moves n; a transfer of an account to itself
\* passes the checks and moves nothing.
transfer(amt, from, to, authority, n) ==
    IF amt[from] < n THEN [result |-> "InsufficientFunds", amount |-> amt]
    ELSE IF TokenAuthority[from] # authority
      THEN [result |-> "OwnerMismatch", amount |-> amt]
    ELSE IF from = to THEN [result |-> "Ok", amount |-> amt]
    ELSE [result |-> "Ok",
          amount |-> [amt EXCEPT ![from] = @ - n, ![to] = @ + n]]

\* One issued token::transfer, as it appears in the effects of a call.
TransferEffect(to, read, n, ok) ==
    [kind |-> "transfer", to |-> to, read |-> read, amount |-> n, ok |-> ok]

\* Mutant: a refused transfer is skipped and the loop goes on.
RECURSIVE run_loop_continue(_, _, _, _)
run_loop_continue(call, i, amt, fx) ==
    IF i > Len(call.holders)
      THEN [result |-> "Ok", amount |-> amt, effects |-> fx]
    ELSE
      LET holder == call.holders[i] IN
      IF holder \notin TokenAccounts
        THEN [result |-> "AccountOwnedByWrongProgram", amount |-> amt, effects |-> fx]
      ELSE
        LET holder_share == calculate_share(amt[holder], call.total_supply,
                                            call.total_revenue, call.overflow_checks)
            t == transfer(amt, call.from, holder, call.authority, holder_share.value)
        IN  IF holder_share.err # "none"
              THEN [result |-> holder_share.err, amount |-> amt, effects |-> fx]
            ELSE LET rest == run_loop_continue(call, i + 1, t.amount,
                               Append(fx, TransferEffect(holder, amt[holder],
                                        holder_share.value, t.result = "Ok")))
                 IN  IF t.result # "Ok" THEN [rest EXCEPT !.result = t.result]
                     ELSE rest

\* Mutant: a holder whose share is 0 is skipped, no transfer is issued for it.
RECURSIVE run_loop_skip_zero(_, _, _, _)
run_loop_skip_zero(call, i, amt, fx) ==
    IF i > Len(call.holders)
      THEN [result |-> "Ok", amount |-> amt, effects |-> fx]
    ELSE
      LET holder == call.holders[i] IN
      IF holder \notin TokenAccounts
        THEN [result |-> "AccountOwnedByWrongProgram", amount |-> amt, effects |-> fx]
      ELSE
        LET holder_share == calculate_share(amt[holder], call.total_supply,
                                            call.total_revenue, call.overflow_checks)
            t == transfer(amt, call.from, holder, call.authority, holder_share.value)
        IN  IF holder_share.err # "none"
              THEN [result |-> holder_share.err, amount |-> amt, effects |-> fx]
            ELSE IF holder_share.value = 0
              THEN run_loop_skip_zero(call, i + 1, amt, fx)
            ELSE IF t.result # "Ok"
              THEN [result |-> t.result, amount |-> amt,
                    effects |-> Append(fx, TransferEffect(holder, amt[holder],
                                                          holder_share.value, FALSE))]
            ELSE run_loop_skip_zero(call, i + 1, t.amount,
                          Append(fx, TransferEffect(holder, amt[holder],
                                                    holder_share.value, TRUE)))

\* for holder in ctx.remaining_accounts.iter() { .. }, from entry i on, with
\* the balances amt and the effects fx so far.  Every `?` and every panic ends
\* the loop with that error.
RECURSIVE run_loop(_, _, _, _)
run_loop(call, i, amt, fx) ==
    IF i > Len(call.holders)
      THEN [result |-> "Ok", amount |-> amt, effects |-> fx]
    ELSE
      LET holder == call.holders[i] IN
      IF holder \notin TokenAccounts
        THEN [result |-> "AccountOwnedByWrongProgram", amount |-> amt, effects |-> fx]
      ELSE
        LET holder_share == calculate_share(amt[holder], call.total_supply,
                                            call.total_revenue, call.overflow_checks)
            t == transfer(amt, call.from, holder, call.authority, holder_share.value)
        IN  IF holder_share.err # "none"
              THEN [result |-> holder_share.err, amount |-> amt, effects |-> fx]
            ELSE IF t.result # "Ok"
              THEN [result |-> t.result, amount |-> amt,
                    effects |-> Append(fx, TransferEffect(holder, amt[holder],
                                                          holder_share.value, FALSE))]
            ELSE run_loop(call, i + 1, t.amount,
                          Append(fx, TransferEffect(holder, amt[holder],
                                                    holder_share.value, TRUE)))

\* Mutant: total_revenue is validated after the loop.
distribute_body_late_check(lot, owner, farmer_token_account, token_mint, remaining_accounts, total_revenue, overflow_checks) ==
    LET total_supply == supply[token_mint]
        run == run_loop([holders |-> remaining_accounts, from |-> farmer_token_account,
                         authority |-> owner, total_supply |-> total_supply,
                         total_revenue |-> total_revenue,
                         overflow_checks |-> overflow_checks],
                        1, amount, << >>)
    IN  IF run.result # "Ok" THEN run
        ELSE IF ~(total_revenue > 0)
          THEN [run EXCEPT !.result = "InvalidRevenueAmount"]
        ELSE [run EXCEPT !.effects =
                Append(@, [kind |-> "RevenueDistributed", lot |-> lot,
                           total_revenue |-> total_revenue, timestamp |-> clock])]

\* Mutant: RevenueDistributed is emitted before the loop.
distribute_body_emit_first(lot, owner, farmer_token_account, token_mint, remaining_accounts, total_revenue, overflow_checks) ==
    IF ~(total_revenue > 0)
      THEN [result |-> "InvalidRevenueAmount", amount |-> amount, effects |-> << >>]
    ELSE
      run_loop([holders |-> remaining_accounts, from |-> farmer_token_account,
                authority |-> owner, total_supply |-> supply[token_mint],
                total_revenue |-> total_revenue,
                overflow_checks |-> overflow_checks],
               1, amount,
               << [kind |-> "RevenueDistributed", lot |-> lot,
                   total_revenue |-> total_revenue, timestamp |-> clock] >>)

\* The handler body once the accounts are validated: require!, the read of
\* the supply, the loop, and the event after the loop.
distribute_body(lot, owner, farmer_token_account, token_mint, remaining_accounts, total_revenue, overflow_checks) ==
    IF ~(total_revenue > 0)
      THEN [result |-> "InvalidRevenueAmount", amount |-> amount, effects |-> << >>]
    ELSE
      LET total_supply == supply[token_mint]
          run == run_loop([holders |-> remaining_accounts, from |-> farmer_token_account,
                           authority |-> owner, total_supply |-> total_supply,
                           total_revenue |-> total_revenue,
                           overflow_checks |-> overflow_checks],
                          1, amount, << >>)
      IN  IF run.result # "Ok" THEN run
          ELSE [run EXCEPT !.effects =
                  Append(@, [kind |-> "RevenueDistributed", lot |-> lot,
                             total_revenue |-> total_revenue, timestamp |-> clock])]

\* Mutant: the has_one = owner constraint is missing.
distribute_outcome_no_has_one(lot, owner, farmer_token_account, token_mint, remaining_accounts, total_revenue, overflow_checks) ==
    IF ~Exists(lot)
      THEN [result |-> "AccountNotInitialized", amount |-> amount, effects |-> << >>]
    ELSE distribute_body(lot, owner, farmer_token_account, token_mint,
                         remaining_accounts, total_revenue, overflow_checks)

\* Mutant: the lot is taken unchecked, neither its existence nor its owner is
\* looked at.
distribute_outcome_unchecked_lot(lot, owner, farmer_token_account, token_mint, remaining_accounts, total_revenue, overflow_checks) ==
    distribute_body(lot, owner, farmer_token_account, token_mint,
                    remaining_accounts, total_revenue, overflow_checks)

\* The whole instruction: the DistributeRevenue accounts (the lot must be an
\* initialized LotAccount, has_one = owner), then the handler.
distribute_outcome(lot, owner, farmer_token_account, token_mint, remaining_accounts, total_revenue, overflow_checks) ==
    IF ~Exists(lot)
      THEN [result |-> "AccountNotInitialized", amount |-> amount, effects |-> << >>]
    ELSE IF LotAt(lot).owner # owner
      THEN [result |-> "InvalidOwner", amount |-> amount, effects |-> << >>]
    ELSE distribute_body(lot, owner, farmer_token_account, token_mint,
                         remaining_accounts, total_revenue, overflow_checks)

\* Mutant: the handler writes the mutable lot account (its harvest_time).
distribute_revenue_writes_lot(lot, owner, farmer_token_account, token_mint, remaining_accounts, total_revenue, overflow_checks) ==
    LET out == distribute_outcome(lot, owner, farmer_token_account, token_mint,
                                  remaining_accounts, total_revenue, overflow_checks)
    IN  /\ last = NoCall
        /\ amount' = out.amount
        /\ last' = [NoCall EXCEPT !.op = "distribute_revenue", !.signer = owner,
                       !.lot = lot, !.token_mint = token_mint,
                       !.from = farmer_token_account,
                       !.holders = remaining_accounts,
                       !.total_revenue = total_revenue,
                       !.total_supply = supply[token_mint],
                       !.now = clock, !.before = amount, !.lots_before = lots,
                       !.result = out.result, !.effects = out.effects]
        /\ lots' = IF out.result = "Ok"
                   THEN {IF l.key = lot THEN [l EXCEPT !.harvest_time = clock] ELSE l
                           : l \in lots}
                   ELSE lots
        /\ UNCHANGED <<clock, supply>>

distribute_revenue(lot, owner, farmer_token_account, token_mint, remaining_accounts, total_revenue, overflow_checks) ==
    LET out == distribute_outcome(lot, owner, farmer_token_account, token_mint,
                                  remaining_accounts, total_revenue, overflow_checks)
    IN  /\ last = NoCall
        /\ amount' = out.amount
        /\ last' = [NoCall EXCEPT !.op = "distribute_revenue", !.signer = owner,
                       !.lot = lot, !.token_mint = token_mint,
                       !.from = farmer_token_account,
                       !.holders = remaining_accounts,
                       !.total_revenue = total_revenue,
                       !.total_supply = supply[token_mint],
                       !.now = clock, !.before = amount, !.lots_before = lots,
                       !.result = out.result, !.effects = out.effects]
        /\ UNCHANGED <<lots, clock, supply>>

\* -------------------------------------------------------------- the clock

\* The caller takes the result of the instruction; the next one can start.
Return ==
    /\ last # NoCall
    /\ last' = NoCall
    /\ UNCHANGED <<lots, clock, amount, supply>>

Tick ==
    /\ last = NoCall
    /\ clock < MaxClock
    /\ clock' = clock + 1
    /\ UNCHANGED <<lots, amount, supply, last>>

\* ------------------------------------------------------------------ inputs

LotAddresses == {LotAddress(f) : f \in Keys}
HolderAccounts == TokenAccounts \cup OtherAccounts
\* Every list of at most n holder accounts.
HolderLists(n) == UNION {[1..k -> HolderAccounts] : k \in 0..n}

\* One step of the program or of the clock, the arguments drawn from the
\* given sets.
NextOver(names, yields, mints, revenues, lists) ==
    \/ /\ last = NoCall
       /\ \E farmer \in Keys, lot_name \in names, yield_estimate \in yields,
             harvest_time \in {clock, clock + 1}, token_mint \in mints :
             initialize_lot(farmer, lot_name, yield_estimate, harvest_time, token_mint)
    \/ /\ last = NoCall
       /\ \E lot \in LotAddresses, owner \in Keys, token_mint \in Mints,
             total_revenue \in revenues, remaining_accounts \in lists,
             overflow_checks \in BOOLEAN :
             distribute_revenue(lot, owner, "F", token_mint, remaining_accounts,
                                total_revenue, overflow_checks)
    \/ \E farmer \in Keys : fetch_weather_data(farmer)
    \/ Return
    \/ Tick

\* The registry from its creation, every kind of registration, short
\* distributions.
Next == NextOver({40, 44, 45}, {0, 1}, Mints, {0, 3, 6, 8}, HolderLists(MaxHolders - 1))

Spec == Init /\ [][Next]_vars

\* The distributions of a registry that holds f1's lot, every holder list of
\* at most MaxHolders entries.
FirstLot == [key |-> LotAddress("f1"), owner |-> "f1", lot_name |-> 40,
             yield_estimate |-> 1, harvest_time |-> 1, token_mint |-> "m1"]

InitDistribute ==
    /\ lots = {FirstLot}
    /\ clock = 0
    /\ amount = [a \in TokenAccounts |-> IF a = "F" THEN 4 ELSE IF a = "A" THEN 2 ELSE 0]
    /\ supply = [m \in Mints |-> IF m = "m1" THEN 6 ELSE 0]
    /\ last = NoCall

NextDistribute == NextOver({40}, {1}, {"m1"}, {0, 3, 6, 8}, HolderLists(MaxHolders))

SpecDistribute == InitDistribute /\ [][NextDistribute]_vars

\* ------------------------------------------------- reading the effects

RECURSIVE SumAmounts(_)
SumAmounts(fx) == IF fx = << >> THEN 0 ELSE Head(fx).amount + SumAmounts(Tail(fx))

IsTransfer(e) == e.kind = "transfer"
\* The transfers a call issued, and those of them the ledger carried out.
Issued(fx) == SelectSeq(fx, IsTransfer)
IsPaid(e) == e.kind = "transfer" /\ e.ok
Paid(fx) == SelectSeq(fx, IsPaid)
IsNotice(e) == e.kind = "RevenueDistributed"
Notices(fx) == SelectSeq(fx, IsNotice)

Distributed == last.op = "distribute_revenue"
Registered == last.op = "initialize_lot"
\* The lot a distribute call names existed, and who owned it.
LotBefore == CHOOSE l \in last.lots_before : l.key = last.lot
ExistedBefore == \E l \in last.lots_before : l.key = last.lot
ByOwner == Distributed /\ ExistedBefore /\ LotBefore.owner = last.signer
ByStranger == Distributed /\ ExistedBefore /\ LotBefore.owner # last.signer

\* ------------------------------------------------------------------ claims

\* C1: distribute_revenue by a signer who is not lot.owner fails with
\* InvalidOwner, issues no transfer, changes no balance and emits nothing,
\* whatever total_revenue, the supply and the holder list are.
C1_AuthorizationGate ==
    ByStranger =>
        /\ last.result = "InvalidOwner"
        /\ last.effects = << >>
        /\ amount = last.before

C1_Witness ==
    /\ ByStranger
    /\ last.total_revenue = 0
    /\ last.total_supply = 0
    /\ Len(last.holders) = MaxHolders
    /\ last.result = "InvalidOwner"

\* C2 (as claimed): with a supply S > 0 and listed balances summing to at most
\* S, the transfers carried out sum to at most total_revenue, and to exactly
\* total_revenue only when S divides every balance * total_revenue.
RECURSIVE SumBefore(_)
SumBefore(hs) == IF hs = << >> THEN 0 ELSE last.before[Head(hs)] + SumBefore(Tail(hs))

C2_Conservation ==
    ( /\ Distributed
      /\ last.total_supply > 0
      /\ \A i \in 1..Len(last.holders) : last.holders[i] \in TokenAccounts
      /\ SumBefore(last.holders) <= last.total_supply )
    => /\ SumAmounts(Paid(last.effects)) <= last.total_revenue
       /\ SumAmounts(Paid(last.effects)) = last.total_revenue
            => \A i \in 1..Len(last.holders) :
                 (last.before[last.holders[i]] * last.total_revenue)
                     % last.total_supply = 0

\* C3 (as claimed): distribute_revenue with a total supply of 0 never returns
\* success, never issues a transfer and never emits RevenueDistributed.
C3_ZeroSupplyFails ==
    (Distributed /\ last.total_supply = 0) =>
        /\ last.result # "Ok"
        /\ Issued(last.effects) = << >>
        /\ Notices(last.effects) = << >>

\* C4 (as claimed): every transfer carries floor(b * R / S) of the exact
\* product of the balance read and total_revenue, and the multiplication never
\* aborts the call.
C4_ExactShare ==
    Distributed =>
        /\ last.result # "PanicOverflow"
        /\ \A i \in 1..Len(Issued(last.effects)) :
             Issued(last.effects)[i].amount
               = (Issued(last.effects)[i].read * last.total_revenue)
                     \div last.total_supply

\* C5 (as claimed): initialize_lot with yield_estimate = 0 always fails with
\* InsufficientYield and creates no lot; with yield_estimate = 1 and a
\* harvest_time later than the clock it always succeeds.
C5_PositivityGateAsClaimed ==
    Registered =>
        /\ last.yield_estimate = 0
             => last.result = "InsufficientYield" /\ lots = last.lots_before
        /\ (last.yield_estimate = 1 /\ last.harvest_time > last.now)
             => last.result = "Ok"

\* C5 (amended): for a farmer who has no lot yet, initialize_lot with
\* yield_estimate = 0 fails with InsufficientYield and creates no lot whatever
\* harvest_time is, and with yield_estimate = 1, a harvest_time later than the
\* clock and a lot_name of at most 44 bytes it succeeds and creates the lot.
C5_PositivityGate ==
    (Registered /\ ~ExistedBefore) =>
        /\ last.yield_estimate = 0
             => last.result = "InsufficientYield" /\ lots = last.lots_before
        /\ (last.yield_estimate = 1 /\ last.harvest_time > last.now
               /\ last.lot_name <= 44)
             => last.result = "Ok" /\ Exists(last.lot)

C5_Witness ==
    /\ Registered /\ ~ExistedBefore
    /\ last.yield_estimate = 0
    /\ last.harvest_time > last.now
    /\ last.result = "InsufficientYield"

\* C6 (as claimed): initialize_lot with harvest_time <= now always fails with
\* InvalidHarvestTime and creates no lot, whatever the other arguments are.
C6_FutureTimeGateAsClaimed ==
    (Registered /\ last.harvest_time <= last.now) =>
        last.result = "InvalidHarvestTime" /\ lots = last.lots_before

\* C6 (amended): for a farmer who has no lot yet and a yield_estimate > 0,
\* initialize_lot with harvest_time <= now fails with InvalidHarvestTime and
\* creates no lot, for any clock value, lot_name and token_mint.
C6_FutureTimeGate ==
    (Registered /\ ~ExistedBefore /\ last.yield_estimate > 0
        /\ last.harvest_time <= last.now) =>
        last.result = "InvalidHarvestTime" /\ lots = last.lots_before

C6_Witness ==
    /\ Registered /\ ~ExistedBefore /\ last.yield_estimate > 0
    /\ last.harvest_time = last.now
    /\ last.now > 0
    /\ last.result = "InvalidHarvestTime"

\* C7: no owner ever has two lots; initialize_lot by a farmer who already has
\* a lot fails as already-initialized whatever its arguments are, leaves the
\* registry as it was and emits no LotInitialized.
C7_OneLotPerOwner ==
    /\ \A o \in Keys : Cardinality({l \in lots : l.owner = o}) <= 1
    /\ (Registered /\ ExistedBefore) =>
          /\ last.result = "AlreadyInUse"
          /\ lots = last.lots_before
          /\ last.effects = << >>

C7_Witness ==
    /\ Registered /\ ExistedBefore
    /\ last.yield_estimate = 1
    /\ last.harvest_time > last.now
    /\ last.lot_name # LotAt(last.lot).lot_name
    /\ last.result = "AlreadyInUse"

\* C8: distribute_revenue by the lot's owner with total_revenue = 0 fails with
\* InvalidRevenueAmount with no transfer issued, every balance and the lots
\* unchanged and nothing emitted; an initialize_lot that fails a require!
\* leaves the registry unchanged.
C8_EagerValidation ==
    /\ (ByOwner /\ last.total_revenue = 0) =>
          /\ last.result = "InvalidRevenueAmount"
          /\ last.effects = << >>
          /\ amount = last.before
          /\ lots = last.lots_before
    /\ (Registered /\ last.result \in {"InsufficientYield", "InvalidHarvestTime"}) =>
          /\ lots = last.lots_before
          /\ amount = last.before

C8_Witness ==
    /\ ByOwner
    /\ last.total_revenue = 0
    /\ Len(last.holders) = MaxHolders
    /\ \A i \in 1..Len(last.holders) : last.holders[i] \in TokenAccounts
    /\ last.before[last.holders[1]] > 0
    /\ last.total_supply > 0
    /\ last.result = "InvalidRevenueAmount"

\* The balances after the transfers of fx have been applied to amt.
RECURSIVE Apply(_, _, _)
Apply(amt, from, fx) ==
    IF fx = << >> THEN amt
    ELSE Apply(IF Head(fx).to = from THEN amt
               ELSE [amt EXCEPT ![from] = @ - Head(fx).amount,
                                ![Head(fx).to] = @ + Head(fx).amount],
               from, Tail(fx))

TransferErrors == {"InsufficientFunds", "OwnerMismatch"}

\* C9: when the transfer to the k-th listed holder fails, the call ends with
\* that error: the transfers issued are those to holders 1..k in order, the
\* first k-1 carried out and the k-th refused, nothing is issued for a later
\* holder, RevenueDistributed is not emitted, and the holders already paid
\* keep what they were paid.
C9_AbortOnFirstFailure ==
    (Distributed /\ last.result \in TransferErrors) =>
        LET k == Len(last.effects) IN
        /\ k >= 1 /\ k <= Len(last.holders)
        /\ \A i \in 1..k :
              /\ last.effects[i].kind = "transfer"
              /\ last.effects[i].to = last.holders[i]
              /\ last.effects[i].ok = (i < k)
        /\ amount = Apply(last.before, last.from, SubSeq(last.effects, 1, k - 1))

C9_Witness ==
    /\ Distributed /\ last.result \in TransferErrors
    /\ Len(last.effects) = 2
    /\ Len(last.holders) = 3
    /\ last.effects[1].amount > 0
    /\ amount # last.before

\* C10: a distribute_revenue that returns success emits RevenueDistributed
\* exactly once, with the call's lot and total_revenue, after a transfer has
\* been issued for every listed holder; one that does not return success does
\* not emit it.
C10_NoticeOnceAtTheEnd ==
    Distributed =>
        IF last.result = "Ok"
        THEN LET n == Len(last.holders) IN
             /\ Len(last.effects) = n + 1
             /\ \A i \in 1..n : last.effects[i].kind = "transfer"
                                  /\ last.effects[i].to = last.holders[i]
             /\ last.effects[n + 1].kind = "RevenueDistributed"
             /\ last.effects[n + 1].lot = last.lot
             /\ last.effects[n + 1].total_revenue = last.total_revenue
        ELSE Notices(last.effects) = << >>

C10_Witness ==
    /\ Distributed /\ last.result = "Ok"
    /\ Len(last.holders) = MaxHolders
    /\ Len(Notices(last.effects)) = 1
    /\ amount # last.before

\* C11: a distribute_revenue that returns success has issued exactly one
\* transfer per entry of the holder list, in the order of the list, every one
\* carried out, an entry whose share is 0 included (a transfer of 0).
C11_OneTransferPerEntry ==
    (Distributed /\ last.result = "Ok") =>
        LET issued == Issued(last.effects) IN
        /\ Len(issued) = Len(last.holders)
        /\ \A i \in 1..Len(issued) :
              issued[i].to = last.holders[i] /\ issued[i].ok

C11_Witness ==
    /\ Distributed /\ last.result = "Ok"
    /\ Len(last.holders) = MaxHolders
    /\ \E i, j \in 1..Len(last.holders) :
          /\ last.effects[i].kind = "transfer" /\ last.effects[i].amount = 0
          /\ last.effects[j].kind = "transfer" /\ last.effects[j].amount > 0
          /\ i < j

\* The holder list names distinct accounts, none of them the source.
DistinctHolders ==
    /\ \A i, j \in 1..Len(last.holders) : i # j => last.holders[i] # last.holders[j]
    /\ \A i \in 1..Len(last.holders) : last.holders[i] # last.from

\* share(h) = floor(h.balance * total_revenue / total_supply) of the balance
\* the holder had when the call began.
ShareOf(h) == (last.before[h] * last.total_revenue) \div last.total_supply

RECURSIVE SumShares(_)
SumShares(hs) == IF hs = << >> THEN 0 ELSE ShareOf(Head(hs)) + SumShares(Tail(hs))

RECURSIVE SumBalances(_, _)
SumBalances(amt, as) ==
    IF as = {} THEN 0
    ELSE LET a == CHOOSE x \in as : TRUE IN amt[a] + SumBalances(amt, as \ {a})

\* C12 (as claimed): after a successful distribute_revenue over distinct
\* holder accounts, none the source, every holder has gained exactly its
\* share, the source has lost exactly the sum of the shares, and the sum of
\* all balances is unchanged.
C12_DustStaysAtSource ==
    (Distributed /\ last.result = "Ok" /\ DistinctHolders) =>
        /\ \A i \in 1..Len(last.holders) :
              amount[last.holders[i]]
                 = last.before[last.holders[i]] + ShareOf(last.holders[i])
        /\ amount[last.from] = last.before[last.from] - SumShares(last.holders)
        /\ SumBalances(amount, TokenAccounts) = SumBalances(last.before, TokenAccounts)

\* C14: a lot, once created, stays as it is: no step of initialize_lot,
\* distribute_revenue or fetch_weather_data, successful or failing, by any
\* signer, changes its owner, lot_name, yield_estimate, harvest_time or
\* token_mint, or removes it.
C14_LotWriteOnce ==
    [][\A l \in lots : {m \in lots' : m.key = l.key} = {l}]_vars

C14_Witness ==
    /\ Distributed /\ last.result = "Ok"
    /\ amount # last.before
    /\ \E l \in lots : l.key = last.lot /\ l \in last.lots_before /\ l.harvest_time <= last.now

\* The lot and the event a successful initialize_lot is to produce.
LotOfCall ==
    [key |-> LotAddress(last.signer), owner |-> last.signer,
     lot_name |-> last.lot_name, yield_estimate |-> last.yield_estimate,
     harvest_time |-> last.harvest_time, token_mint |-> last.token_mint]
NoticeOfCall ==
    [kind |-> "LotInitialized", lot_name |-> last.lot_name, owner |-> last.signer,
     yield_estimate |-> last.yield_estimate, harvest_time |-> last.harvest_time]

\* C15: a successful initialize_lot adds exactly the lot of its signer and
\* arguments, emits exactly one LotInitialized with the same lot_name, owner,
\* yield_estimate and harvest_time, and moves no token balance; the lot it
\* stores has a harvest_time later than the clock of its creation, and every
\* lot there is has a yield_estimate > 0.
C15_StoredAsSupplied ==
    /\ (Registered /\ last.result = "Ok") =>
          /\ LotOfCall \notin last.lots_before
          /\ lots = last.lots_before \cup {LotOfCall}
          /\ last.effects = << NoticeOfCall >>
          /\ amount = last.before
          /\ LotOfCall.harvest_time > last.now
    /\ \A l \in lots : l.yield_estimate > 0 /\ l.harvest_time > 0

C15_Witness ==
    /\ Registered /\ last.result = "Ok"
    /\ last.now > 0
    /\ last.lot_name = 44
    /\ last.token_mint = "m2"
    /\ Cardinality(lots) = 2

\* C16: a distribute_revenue succeeds, issues a transfer or emits
\* RevenueDistributed for a lot only if the lot existed before the call, and a
\* lot comes to exist only by a successful initialize_lot of that lot, which
\* has emitted its LotInitialized.
C16_RegisterBeforeDistribute ==
    [][ /\ (last'.op = "distribute_revenue"
              /\ (last'.result = "Ok" \/ last'.effects # << >>))
           => Exists(last'.lot)
        /\ \A l \in lots' \ lots :
              /\ last'.op = "initialize_lot" /\ last'.result = "Ok"
              /\ l.key = last'.lot
              /\ \E i \in 1..Len(last'.effects) :
                    last'.effects[i].kind = "LotInitialized"
                      /\ last'.effects[i].owner = l.owner ]_vars

C16_Witness ==
    /\ Distributed /\ last.result = "Ok"
    /\ Len(Paid(last.effects)) >= 1
    /\ Len(Notices(last.effects)) = 1
    /\ Cardinality(last.lots_before) = 1

\* C17 (as claimed): every transfer of a call carries the share of the balance
\* its account had when the call began, whatever was transferred earlier in
\* the call, also for an account listed twice and for the source listed as a
\* holder.
C17_SnapshotConsistency ==
    Distributed =>
        \A i \in 1..Len(Issued(last.effects)) :
            Issued(last.effects)[i].amount
               = ((last.before[last.holders[i]] * last.total_revenue) % U64_MOD)
                     \div last.total_supply

\* C18 (as claimed): a distribute_revenue that succeeds or issues a transfer
\* was given the mint recorded in lot.token_mint, so the supply it divides by
\* is that mint's.
C18_OwnMintOnly ==
    (Distributed /\ ExistedBefore
        /\ (last.result = "Ok" \/ Issued(last.effects) # << >>)) =>
        /\ last.token_mint = LotBefore.token_mint
        /\ last.total_supply = supply[LotBefore.token_mint]

\* C19 (as claimed): every stored lot has a lot_name of at most 40 bytes, and
\* initialize_lot with a lot_name of more than 40 bytes creates no lot.
C19_NameBound ==
    /\ \A l \in lots : l.lot_name <= 40
    /\ (Registered /\ last.lot_name > 40) => lots = last.lots_before

====
